---------------------------- MODULE Spec2Model ----------------------------
(***************************************************************************)
(* A model of setup_project.py, the project initializer: main's pipeline   *)
(* (configuration, directory structure, pyenv/poetry, pyproject.toml,      *)
(* dependencies, Dockerfile, git, fetched standard files, CI workflow),    *)
(* the recursive structure builder on a small file system, and the         *)
(* pyproject.toml edit on a TOML document.                                 *)
(***************************************************************************)
EXTENDS Naturals, Sequences, FiniteSets, TLC

VARIABLES
    pc,         \* position of the run in main (or in the stand-alone runs)
    config,     \* the mapping yaml.safe_load returned
    cfgFile,    \* what open()/yaml.safe_load find: "ok", "missing", "malformed"
    fs,         \* the file system below the parent directory
    pyproject,  \* pyproject.toml in the project directory
    procs,      \* the external commands started so far, in order, with outcome
    fetched,    \* the requests.get calls made so far, in order, with outcome
    error_log,  \* main's error_log list
    reported,   \* the messages of the final summary
    failure,    \* the exception that ended the run, if any
    steps,      \* the functions main has called so far, in order
    structure,  \* the structure description handed to the builder
    base_path,  \* the project directory
    fs0,        \* stand-alone runs: the file system before the first run
    fs1,        \* stand-alone runs: the file system after the first run
    err1,       \* stand-alone runs: the error raised by the first run
    err2,       \* stand-alone runs: the error raised by the second run
    pyproject0  \* stand-alone edit: pyproject.toml before the edit

vars == <<pc, config, cfgFile, fs, pyproject, procs, fetched, error_log,
          reported, failure, steps, structure, base_path, fs0, fs1, err1,
          err2, pyproject0>>

---------------------------------------------------------------------------
(* Bounds of the model. *)

\* total size of a structure description (path segments plus file names)
MaxSize == 3

---------------------------------------------------------------------------
(* The file system: directories and regular files, by absolute path (a     *)
(* sequence of segments, as pathlib's Path.parts); a file's content is a   *)
(* sequence of text pieces, <<>> for an empty file.                        *)

NoError == "none"

ParentDir == <<"work">>

InitPy == "__init__.py"

Parent(p) == SubSeq(p, 1, Len(p) - 1)

Prefixes(p) == {SubSeq(p, 1, k) : k \in 1..Len(p)}

IsDir(tree, p) == p \in tree.dirs

IsFile(tree, p) == p \in DOMAIN tree.files

Exists(tree, p) == IsDir(tree, p) \/ IsFile(tree, p)

\* "src" in path.parts
HasSrcPart(p) == \E i \in 1..Len(p) : p[i] = "src"

EmptyTree == [dirs |-> Prefixes(ParentDir), files |-> <<>>]

\* A state of a run of file operations: the tree and the exception raised.
Ok(tree) == [tree |-> tree, err |-> NoError]

Raise(tree, e) == [tree |-> tree, err |-> e]

\* Path.mkdir(parents=True, exist_ok=True): an existing directory is left
\* alone, missing ancestors are created; a regular file at the path is
\* FileExistsError, a regular file among the ancestors NotADirectoryError.
Mkdir(st, p) ==
    IF st.err # NoError THEN st
    ELSE IF IsDir(st.tree, p) THEN st
    ELSE IF IsFile(st.tree, p) THEN Raise(st.tree, "FileExistsError")
    ELSE IF \E q \in Prefixes(p) : IsFile(st.tree, q)
         THEN Raise(st.tree, "NotADirectoryError")
    ELSE Ok([st.tree EXCEPT !.dirs = @ \cup Prefixes(p)])

\* open(p, "w").close(): creates the file or truncates the one there.
TouchTruncating(st, p) ==
    IF st.err # NoError THEN st
    ELSE IF IsDir(st.tree, p) THEN Raise(st.tree, "IsADirectoryError")
    ELSE IF IsFile(st.tree, Parent(p)) THEN Raise(st.tree, "NotADirectoryError")
    ELSE IF ~IsDir(st.tree, Parent(p)) THEN Raise(st.tree, "FileNotFoundError")
    ELSE Ok([st.tree EXCEPT !.files = (p :> <<>>) @@ @])

\* Path.touch(): an existing entry (file or directory) only has its times
\* updated; otherwise an empty file is created, which needs the parent.
Touch(st, p) ==
    IF st.err # NoError THEN st
    ELSE IF Exists(st.tree, p) THEN st
    ELSE IF \E q \in Prefixes(Parent(p)) : IsFile(st.tree, q)
         THEN Raise(st.tree, "NotADirectoryError")
    ELSE IF ~IsDir(st.tree, Parent(p)) THEN Raise(st.tree, "FileNotFoundError")
    ELSE Ok([st.tree EXCEPT !.files = (p :> <<>>) @@ @])

\* Path.write_text(text): creates or overwrites; needs the parent directory.
WriteText(st, p, text) ==
    IF st.err # NoError THEN st
    ELSE IF IsDir(st.tree, p) THEN Raise(st.tree, "IsADirectoryError")
    ELSE IF ~IsDir(st.tree, Parent(p)) THEN Raise(st.tree, "FileNotFoundError")
    ELSE Ok([st.tree EXCEPT !.files = (p :> text) @@ @])

---------------------------------------------------------------------------
(* Structure descriptions.  An item of the list is a string (a directory   *)
(* name, possibly of several segments), a mapping (a sequence of entries   *)
(* folder -> nested items, in the mapping's order) or something else.  A   *)
(* nested item is a string (a file name), a mapping, or something else.    *)

StrItem(name) == [kind |-> "str", name |-> name, entries |-> <<>>]

DictItem(entries) == [kind |-> "dict", name |-> <<>>, entries |-> entries]

OtherItem == [kind |-> "other", name |-> <<>>, entries |-> <<>>]

Entry(folder, isList, nested) ==
    [folder |-> folder, isList |-> isList, nested |-> nested]

RECURSIVE CreateProjectStructure(_, _, _)
RECURSIVE CreateEntries(_, _, _)
RECURSIVE CreateNested(_, _, _)

\* the marker of a directory whose path has a "src" part
TouchInitIfSrc(st, path) ==
    IF HasSrcPart(path) THEN Touch(st, path \o <<InitPy>>) ELSE st

\* for nested_item in nested_items (lines 63-71)
CreateNested(st, folder_path, nested) ==
    IF nested = <<>> \/ st.err # NoError THEN st
    ELSE LET item == Head(nested)
             next == CASE item.kind = "str" ->
                              Touch(st, folder_path \o item.name)
                       [] item.kind = "dict" ->
                              CreateProjectStructure(st, folder_path, <<item>>)
                       [] OTHER -> st
         IN  CreateNested(next, folder_path, Tail(nested))

\* for folder, nested_items in item.items() (lines 57-75)
CreateEntries(st, base, entries) ==
    IF entries = <<>> \/ st.err # NoError THEN st
    ELSE LET e == Head(entries)
             folder_path == base \o e.folder
             made == Mkdir(st, folder_path)
             filled == IF e.isList
                       THEN CreateNested(made, folder_path, e.nested)
                       ELSE made
         IN  CreateEntries(TouchInitIfSrc(filled, folder_path), base,
                           Tail(entries))

\* create_project_structure(base_path, structure) (lines 45-75)
CreateProjectStructure(st, base, items) ==
    IF items = <<>> \/ st.err # NoError THEN st
    ELSE LET item == Head(items)
             next == CASE item.kind = "str" ->
                              TouchInitIfSrc(Mkdir(st, base \o item.name),
                                             base \o item.name)
                       [] item.kind = "dict" ->
                              CreateEntries(st, base, item.entries)
                       [] OTHER -> st
         IN  CreateProjectStructure(next, base, Tail(items))

---------------------------------------------------------------------------
(* The structure descriptions of the model: every description whose size   *)
(* (path segments of directory names and folders, plus one per file name   *)
(* or unrecognised item) is at most MaxSize.                               *)

Segments == {"src", "a"}

FileNames == {"f.py"}

RECURSIVE PathsOfLen(_)
RECURSIVE EntriesOfSize(_)
RECURSIVE NestedOfSize(_)
RECURSIVE StructuresOfSize(_)

PathsOfLen(n) ==
    IF n = 0 THEN {<<>>}
    ELSE {<<s>> \o p : s \in Segments, p \in PathsOfLen(n - 1)}

\* folder: [nested items] and folder: <not a list>
EntryOfSize(k) ==
    UNION {{Entry(p, TRUE, l) : p \in PathsOfLen(j), l \in NestedOfSize(k - j)}
           : j \in 1..k}
    \cup {Entry(p, FALSE, <<>>) : p \in PathsOfLen(k)}

EntriesOfSize(n) ==
    IF n = 0 THEN {<<>>}
    ELSE UNION {{<<e>> \o r : e \in EntryOfSize(k), r \in EntriesOfSize(n - k)}
                : k \in 1..n}

NestedItemOfSize(k) ==
    (IF k = 1 THEN {StrItem(<<f>>) : f \in FileNames} \cup {OtherItem} ELSE {})
    \cup {DictItem(es) : es \in EntriesOfSize(k)}

NestedOfSize(m) ==
    IF m = 0 THEN {<<>>}
    ELSE UNION {{<<i>> \o r : i \in NestedItemOfSize(k), r \in NestedOfSize(m - k)}
                : k \in 1..m}

ItemOfSize(k) ==
    {StrItem(p) : p \in PathsOfLen(k)}
    \cup (IF k = 1 THEN {OtherItem} ELSE {})
    \cup {DictItem(es) : es \in EntriesOfSize(k)}

StructuresOfSize(n) ==
    IF n = 0 THEN {<<>>}
    ELSE UNION {{<<i>> \o r : i \in ItemOfSize(k), r \in StructuresOfSize(n - k)}
                : k \in 1..n}

Structures == UNION {StructuresOfSize(n) : n \in 0..MaxSize}

\* Path("..").resolve() / project_name
BasePath(project_name) == ParentDir \o <<project_name>>

ProjectNames == {"proj", "src"}

\* The project directory as a run of the builder may find it: new, or left
\* by an earlier run or by the user.
InitialTrees(base) ==
    LET new == [EmptyTree EXCEPT !.dirs = @ \cup Prefixes(base)]
    IN  { new,
          [new EXCEPT !.files = (base \o <<"src">>) :> <<"data">>],
          [new EXCEPT !.files = (base \o <<"a">>) :> <<"data">>],
          [new EXCEPT !.dirs = @ \cup {base \o <<"src">>, base \o <<"a">>},
                      !.files = ((base \o <<"src", InitPy>>) :> <<"data">>)
                                @@ ((base \o <<"a", "f.py">>) :> <<"data">>)] }

---------------------------------------------------------------------------
(* Values of the variables a specification does not use. *)

NoConfig == <<>>

NoPyproject ==
    [exists |-> FALSE, comments |-> {}, tables |-> {}, kv |-> <<>>]

NoFailure == [step |-> "none", error |-> NoError]

---------------------------------------------------------------------------
(* The structure builder run twice on the same project directory. *)

InitStructure ==
    /\ pc = "start"
    /\ \E name \in ProjectNames : base_path = BasePath(name)
    /\ structure \in Structures
    /\ fs \in InitialTrees(base_path)
    /\ fs0 = fs
    /\ fs1 = fs
    /\ err1 = NoError
    /\ err2 = NoError
    /\ config = NoConfig
    /\ cfgFile = "ok"
    /\ pyproject = NoPyproject
    /\ pyproject0 = NoPyproject
    /\ procs = <<>>
    /\ fetched = <<>>
    /\ error_log = <<>>
    /\ reported = <<>>
    /\ failure = NoFailure
    /\ steps = <<>>

BuildFirst ==
    /\ pc = "start"
    /\ LET r == CreateProjectStructure(Ok(fs), base_path, structure)
       IN  /\ fs' = r.tree
           /\ fs1' = r.tree
           /\ err1' = r.err
    /\ pc' = "ran1"
    /\ UNCHANGED <<config, cfgFile, pyproject, procs, fetched, error_log,
                   reported, failure, steps, structure, base_path, fs0, err2,
                   pyproject0>>

BuildSecond ==
    /\ pc = "ran1"
    /\ LET r == CreateProjectStructure(Ok(fs), base_path, structure)
       IN  /\ fs' = r.tree
           /\ err2' = r.err
    /\ pc' = "ran2"
    /\ UNCHANGED <<config, cfgFile, pyproject, procs, fetched, error_log,
                   reported, failure, steps, structure, base_path, fs0, fs1,
                   err1, pyproject0>>

NextStructure == BuildFirst \/ BuildSecond

SpecStructure == InitStructure /\ [][NextStructure]_vars

\* the directories strictly below the project directory
DirsBelow(tree, base) ==
    {d \in tree.dirs : Len(d) > Len(base) /\ SubSeq(d, 1, Len(base)) = base}

\* the part of a path below the project directory
Relative(d, base) == SubSeq(d, Len(base) + 1, Len(d))

IsNew(tree, base) == tree.dirs = Prefixes(base) /\ tree.files = <<>>

(* C3: after the builder has run without error on a new project directory, *)
(* every directory below it whose path (below the project directory) has a *)
(* segment "src" holds an empty __init__.py.                               *)
C3_EverySrcDirHasMarker ==
    (pc = "ran1" /\ err1 = NoError /\ IsNew(fs0, base_path))
    => \A d \in DirsBelow(fs, base_path) :
           HasSrcPart(Relative(d, base_path))
           => /\ IsFile(fs, d \o <<InitPy>>)
              /\ fs.files[d \o <<InitPy>>] = <<>>

(* C6 as stated: the second run leaves the directories and files (and the  *)
(* files' contents) as the first run left them and raises no error.        *)
C6_SecondRunNoError ==
    pc = "ran2" => (fs = fs1 /\ err2 = NoError)

(* C6 as amended: the second run leaves the directories, the files and     *)
(* their contents as the first run left them, every file present before    *)
(* the first run keeps its content, and the second run raises exactly the  *)
(* error the first run raised: none when the first run completed, else the *)
(* error of a described directory whose path is, or lies below, a regular  *)
(* file.                                                                   *)
C6_SecondRunRepeatsFirst ==
    pc = "ran2"
    => /\ fs = fs1
       /\ err2 = err1
       /\ err2 \in {NoError, "FileExistsError", "NotADirectoryError"}
       /\ \A p \in DOMAIN fs0.files :
              IsFile(fs, p) /\ fs.files[p] = fs0.files[p]

\* a second run over a first run that created entries and touched a file
\* that was there before, with content
C6_Witness ==
    /\ pc = "ran2"
    /\ err1 = NoError
    /\ err2 = NoError
    /\ fs1 # fs0
    /\ structure = <<StrItem(<<"src">>), DictItem(<<Entry(<<"a">>, TRUE,
                       <<StrItem(<<"f.py">>)>>)>>)>>
    /\ fs0.files # <<>>

---------------------------------------------------------------------------
(* Configuration values.  config is a function from the keys present to    *)
(* their values; Python's None is a value of its own.                      *)

None == "<None>"

\* config.get(key, default)
Get(cfg, key, default) == IF key \in DOMAIN cfg THEN cfg[key] ELSE default

\* the truth value of a string or None, as in "if remote_url:"
Truthy(v) == v # None /\ v # ""

\* one key of the configuration file: left out, or one of the values
Optional(key, values) == {<<>>} \cup {key :> v : v \in values}

---------------------------------------------------------------------------
(* pyproject.toml.  The file holds comment lines, table headers and        *)
(* key = value lines; toml.load returns the nested mapping (the tables and *)
(* the values by key path) and toml.dump writes a mapping back as headers  *)
(* and key = value lines.                                                  *)

Tool == <<"tool">>

Poetry == <<"tool", "poetry">>

PoetryDeps == <<"tool", "poetry", "dependencies">>

\* toml.load(path)
TomlLoad(file) == [tables |-> file.tables, kv |-> file.kv]

\* toml.dump(doc, f)
TomlDump(doc) ==
    [exists |-> TRUE, comments |-> {}, tables |-> doc.tables, kv |-> doc.kv]

\* a state of the edit: the mapping in memory and the exception raised
Doc(doc) == [doc |-> doc, err |-> NoError]

\* table = {key: value}: the assignment replaces the table's other keys
SetItemReplacingTable(st, table, key, value) ==
    IF st.err # NoError THEN st
    ELSE IF \E t \in Prefixes(table) : t \notin st.doc.tables
         THEN [st EXCEPT !.err = "KeyError"]
    ELSE LET kept == {k \in DOMAIN st.doc.kv :
                          ~(Len(k) = Len(table) + 1 /\ Parent(k) = table)}
         IN  [st EXCEPT !.doc.kv = ((table \o <<key>>) :> value)
                                   @@ [k \in kept |-> st.doc.kv[k]]]

\* pyproject[t1][t2]...[key] = value: KeyError when a table on the way is
\* missing, else the key is set (added or overwritten) in that table
SetItem(st, table, key, value) ==
    IF st.err # NoError THEN st
    ELSE IF \E t \in Prefixes(table) : t \notin st.doc.tables
         THEN [st EXCEPT !.err = "KeyError"]
    ELSE [st EXCEPT !.doc.kv = ((table \o <<key>>) :> value) @@ @]

Versions == {"3.8", "3.11"}

\* "^" + version, for a version that is a string
Caret(v) ==
    CASE v = "3.8" -> "^3.8"
      [] v = "3.11" -> "^3.11"

\* pyproject[...]["dependencies"]["python"] = "^" + config.get("python_version")
\* (line 136): the right-hand side is evaluated first, and "^" + None is a
\* TypeError
SetPythonConstraint(st, cfg) ==
    IF st.err # NoError THEN st
    ELSE IF Get(cfg, "python_version", None) = None
         THEN [st EXCEPT !.err = "TypeError"]
    ELSE SetItem(st, PoetryDeps, "python", Caret(cfg["python_version"]))

\* what reading and writing pyproject.toml may meet
IoOutcomes == {"ok", "read_fail", "write_fail"}

\* update_pyproject(base_path, config) (lines 130-140) on the file; io is
\* what the file system does to the read and the write
UpdatePyproject(file, cfg, io) ==
    IF ~file.exists THEN [file |-> file, err |-> "FileNotFoundError"]
    ELSE IF io = "read_fail" THEN [file |-> file, err |-> "OSError"]
    ELSE
      LET s0 == Doc(TomlLoad(file))
          s1 == SetItem(s0, Poetry, "name", cfg["project_name"])
          s2 == SetItem(s1, Poetry, "version", Get(cfg, "version", "0.1.0"))
          s3 == SetItem(s2, Poetry, "readme", "README.md")
          s4 == SetPythonConstraint(s3, cfg)
          s5 == SetItem(s4, Poetry, "authors", "[]")
      IN  IF s5.err # NoError THEN [file |-> file, err |-> s5.err]
          ELSE IF io = "write_fail" THEN [file |-> file, err |-> "OSError"]
          ELSE [file |-> TomlDump(s5.doc), err |-> NoError]

\* the five key paths the edit sets
EditedKeys ==
    { Poetry \o <<"name">>, Poetry \o <<"version">>, Poetry \o <<"readme">>,
      PoetryDeps \o <<"python">>, Poetry \o <<"authors">> }

---------------------------------------------------------------------------
(* The edit on its own, over manifests with and without further keys at    *)
(* every level, with and without the tables the edit goes through.         *)

ManifestTables ==
    { {Tool, Poetry, PoetryDeps, <<"build-system">>, <<"tool", "black">>},
      {Tool, Poetry, PoetryDeps},
      {Tool, Poetry},
      {<<"project">>, <<"build-system">>} }

ManifestKeys ==
    [k \in { <<"title">>,
             <<"build-system", "requires">>,
             <<"tool", "black", "line-length">>,
             Poetry \o <<"name">>,
             Poetry \o <<"description">>,
             Poetry \o <<"authors">>,
             PoetryDeps \o <<"python">>,
             PoetryDeps \o <<"requests">> } |-> "old"]

Manifests ==
    { [exists |-> TRUE, comments |-> c, tables |-> t,
       kv |-> [k \in ks |-> ManifestKeys[k]]] :
        c \in {{}, {"# generated"}},
        t \in ManifestTables,
        ks \in SUBSET (DOMAIN ManifestKeys) }

\* a manifest whose keys all lie in tables it has
WellFormed(file) ==
    \A k \in DOMAIN file.kv : Len(k) = 1 \/ Parent(k) \in file.tables

ManifestConfigs ==
    { a @@ b @@ c : a \in Optional("project_name", {"proj"}) \ {<<>>},
                    b \in Optional("version", {"1.2.3"}),
                    c \in Optional("python_version", Versions) }

InitManifest ==
    /\ pc = "start"
    /\ config \in ManifestConfigs
    /\ pyproject \in {m \in Manifests : WellFormed(m)} \cup {NoPyproject}
    /\ pyproject0 = pyproject
    /\ base_path = BasePath(config["project_name"])
    /\ structure = <<>>
    /\ fs = EmptyTree
    /\ fs0 = fs
    /\ fs1 = fs
    /\ err1 = NoError
    /\ err2 = NoError
    /\ cfgFile = "ok"
    /\ procs = <<>>
    /\ fetched = <<>>
    /\ error_log = <<>>
    /\ reported = <<>>
    /\ failure = NoFailure
    /\ steps = <<>>

EditManifest ==
    /\ pc = "start"
    /\ \E io \in IoOutcomes :
          LET r == UpdatePyproject(pyproject, config, io)
          IN  /\ pyproject' = r.file
              /\ failure' = [step |-> "update_pyproject", error |-> r.err]
    /\ pc' = "edited"
    /\ UNCHANGED <<config, cfgFile, fs, procs, fetched, error_log, reported,
                   steps, structure, base_path, fs0, fs1, err1, err2,
                   pyproject0>>

NextManifest == EditManifest

SpecManifest == InitManifest /\ [][NextManifest]_vars

(* C5: after the edit every key of the manifest other than the five edited *)
(* ones (name, version, readme, authors under tool.poetry and python under *)
(* tool.poetry.dependencies) is present with the value it had, every table *)
(* is still there, and no key or table is added apart from the five.       *)
C5_OtherKeysPreserved ==
    pc = "edited"
    => /\ \A k \in DOMAIN pyproject0.kv \ EditedKeys :
              k \in DOMAIN pyproject.kv /\ pyproject.kv[k] = pyproject0.kv[k]
       /\ DOMAIN pyproject.kv \subseteq DOMAIN pyproject0.kv \cup EditedKeys
       /\ pyproject.tables = pyproject0.tables
       /\ pyproject.exists = pyproject0.exists

\* an edit that went through on a manifest with other keys at every level
C5_Witness ==
    /\ pc = "edited"
    /\ failure.error = NoError
    /\ pyproject.kv[PoetryDeps \o <<"python">>] = "^3.11"
    /\ pyproject.kv[Poetry \o <<"name">>] = "proj"
    /\ { <<"title">>, <<"tool", "black", "line-length">>,
         Poetry \o <<"description">>, PoetryDeps \o <<"requests">> }
           \subseteq DOMAIN pyproject0.kv

---------------------------------------------------------------------------
(* main (lines 208-291): the values it reads from the configuration.       *)

\* total number of dependencies a configuration lists
MaxDeps == 2

GroupNames == {"main", "dev"}

DepNames == {"a", "torch"}

\* the value of the dependencies key: None, or the groups in the mapping's
\* order, each with its list of names
NoneDeps == [isNone |-> TRUE, groups |-> <<>>]

Mapping(groups) == [isNone |-> FALSE, groups |-> groups]

Group(name, deps) == [group |-> name, deps |-> deps]

RECURSIVE NamesOfLen(_)

NamesOfLen(n) ==
    IF n = 0 THEN {<<>>}
    ELSE {<<d>> \o r : d \in DepNames, r \in NamesOfLen(n - 1)}

\* the mappings of at most two groups that list at most MaxDeps names
DependencyMappings ==
    {Mapping(<<>>)}
    \cup {Mapping(<<Group(g, l)>>) :
            g \in GroupNames, l \in UNION {NamesOfLen(n) : n \in 0..MaxDeps}}
    \cup UNION {UNION {{Mapping(<<Group(gh[1], l), Group(gh[2], m)>>) :
                          gh \in {x \in GroupNames \X GroupNames : x[1] # x[2]},
                          l \in NamesOfLen(n), m \in NamesOfLen(k)}
                       : k \in 0..(MaxDeps - n)}
                : n \in 0..MaxDeps}

DefaultPreCommitUrl ==
    "https://raw.githubusercontent.com/pre-commit/pre-commit-hooks/master/ci/pre-commit-config.yaml"

DefaultGitignoreUrl ==
    "https://raw.githubusercontent.com/github/gitignore/master/Python.gitignore"

DefaultLicenseUrl ==
    "https://github.com/git/git-scm.com/blob/main/MIT-LICENSE.txt"

\* the configurations of the model: the required keys present or not with
\* the optional ones; every dependency mapping; every remote and template
\* URL setting
UrlOverrides ==
    { <<>>,
      "gitignore_url" :> "https://example.org/gitignore",
      ("gitignore_url" :> "https://example.org/gitignore")
        @@ ("pre_commit_config_url" :> "https://example.org/pre-commit")
        @@ ("license_url" :> "https://example.org/license") }

SrcStructure ==
    <<StrItem(<<"src">>),
      DictItem(<<Entry(<<"docs">>, TRUE, <<StrItem(<<"index.md">>)>>)>>)>>

Configs ==
    { p @@ d @@ s @@ v :
        p \in Optional("project_name", {"proj"}),
        d \in Optional("dependencies",
                       {NoneDeps, Mapping(<<Group("main", <<"a">>)>>)}),
        s \in Optional("structure", {SrcStructure}),
        v \in Optional("python_version", {"3.11"}) }
    \cup
    { ("project_name" :> "proj") @@ ("python_version" :> "3.11")
        @@ ("dependencies" :> d) : d \in DependencyMappings }
    \cup
    { ("project_name" :> "proj") @@ ("python_version" :> "3.11")
        @@ ("dependencies" :> NoneDeps) @@ r @@ u :
        r \in Optional("remote_url", {"", "git@example.org:proj.git"}),
        u \in UrlOverrides }

\* the locals of main (lines 212-228)
ProjectName(cfg) == cfg["project_name"]

Dependencies(cfg) == cfg["dependencies"]

StructureOf(cfg) == Get(cfg, "structure", <<>>)

RemoteUrl(cfg) == Get(cfg, "remote_url", None)

PythonVersion(cfg) == Get(cfg, "python_version", "3.8")

PreCommitConfigUrl(cfg) == Get(cfg, "pre_commit_config_url", DefaultPreCommitUrl)

GitignoreUrl(cfg) == Get(cfg, "gitignore_url", DefaultGitignoreUrl)

LicenseUrl(cfg) == Get(cfg, "license_url", DefaultLicenseUrl)

\* project_name read with config.get and a default
RequiredKeysNameDefaulted(cfg) == {"dependencies"}

\* the keys main reads with config[...] (lines 212-213)
RequiredKeys(cfg) == {"project_name", "dependencies"}

---------------------------------------------------------------------------
(* External commands and retrievals. *)

\* a subprocess call: its argument vector and whether it exited with 0
Proc(cmd, ok) == [cmd |-> cmd, ok |-> ok]

IsPrefix(pre, seq) == Len(pre) <= Len(seq) /\ SubSeq(seq, 1, Len(pre)) = pre

RECURSIVE Select(_, _)

\* the calls of procs whose command starts with pre, in order
Select(procs_, pre) ==
    IF procs_ = <<>> THEN <<>>
    ELSE (IF IsPrefix(pre, Head(procs_).cmd) THEN <<Head(procs_)>> ELSE <<>>)
         \o Select(Tail(procs_), pre)

RECURSIVE Listing(_)

\* for group, deps in dependencies.items(): for dep in deps (lines 248-249)
Listing(groups) ==
    IF groups = <<>> THEN <<>>
    ELSE [i \in 1..Len(Head(groups).deps) |->
              [group |-> Head(groups).group, dep |-> Head(groups).deps[i]]]
         \o Listing(Tail(groups))

\* a command line that marks the main group as development-only
DepCommandDevMain(group, dep) ==
    <<"poetry", "add">>
    \o (IF group = "main" THEN <<"-D">> ELSE <<>>)
    \o (IF dep \in {"torch", "torchvision"}
        THEN <<"--source", "pytorch_cpu", dep>> ELSE <<dep>>)

\* dep_command (lines 251-261)
DepCommand(group, dep) ==
    <<"poetry", "add">>
    \o (IF group # "main" THEN <<"-D">> ELSE <<>>)
    \o (IF dep \in {"torch", "torchvision"}
        THEN <<"--source", "pytorch_cpu", dep>> ELSE <<dep>>)

\* error_message (lines 272-274)
ErrorMessage(dep) ==
    <<"Failed to add dependency '", dep, "' due to an error: ", "stderr">>

GitInitCmd == <<"git", "init">>

\* a setup_git that commits without staging
GitCommandsNoStage(remote_url) ==
    <<GitInitCmd>>
    \o (IF Truthy(remote_url)
        THEN << <<"git", "remote", "add", "origin", remote_url>>,
                <<"git", "commit", "-m", "Initial commit">>,
                <<"git", "push", "-u", "origin", "master">> >>
        ELSE <<>>)

\* the commands of setup_git and initial_commit_and_push (lines 78-93), in
\* the order they are run while each one succeeds
GitCommands(remote_url) ==
    <<GitInitCmd>>
    \o (IF Truthy(remote_url)
        THEN << <<"git", "remote", "add", "origin", remote_url>>,
                <<"git", "add", ".">>,
                <<"git", "commit", "-m", "Initial commit">> >>
             \o (IF Truthy(remote_url)
                 THEN << <<"git", "push", "-u", "origin", "master">> >>
                 ELSE <<>>)
        ELSE <<>>)

PreCommitInstallCmd == <<"pre-commit", "install">>

\* what fetch_file (lines 99-106) returns: None after a RequestException,
\* else the text of the response, which may be empty
FetchResults == {None, "", "text"}

Fetched(url, result) == [url |-> url, result |-> result]

\* hooks installed whatever was fetched
InstallsHooksAlways(content) == TRUE

\* "if pre_commit_config_content:" (line 114)
InstallsHooks(content) == Truthy(content)

\* the file written for fetched text
FileText(url, content) == <<content, url>>

\* dockerfile_content (lines 144-167)
DockerfileText(python_version) ==
    <<"FROM python:", python_version, "-slim">>

\* the readme's text (line 127)
ReadmeText(base) == <<"# Project ", base[Len(base)], "\n">>

\* ci_cd_config (lines 173-198)
CiText == <<"name: Python application">>

\* pyproject.toml as "poetry init --no-interaction --name <name>" writes it
GeneratedManifest(name) ==
    [exists |-> TRUE,
     comments |-> {},
     tables |-> {Tool, Poetry, PoetryDeps, <<"build-system">>},
     kv |-> ((Poetry \o <<"name">>) :> name)
            @@ ((Poetry \o <<"version">>) :> "0.1.0")
            @@ ((Poetry \o <<"description">>) :> "")
            @@ ((Poetry \o <<"authors">>) :> "[\"Your Name <you@example.com>\"]")
            @@ ((PoetryDeps \o <<"python">>) :> "^3.10")
            @@ (<<"build-system", "requires">> :> "[\"poetry-core\"]")
            @@ (<<"build-system", "build-backend">> :> "poetry.core.masonry.api")]

---------------------------------------------------------------------------
(* main, one action per statement or loop iteration.  An uncaught          *)
(* exception ends the run: pc = "aborted", failure names the step and the  *)
(* exception.                                                              *)

standAlone == <<fs0, fs1, err1, err2, pyproject0>>

Failure(step, error) == [step |-> step, error |-> error]

AddAttempts == Select(procs, <<"poetry", "add">>)

GitAttempts == Select(procs, <<"git">>)

\* the dependencies the loop of lines 247-277 goes through
ToInstall ==
    IF Dependencies(config).isNone THEN <<>>
    ELSE Listing(Dependencies(config).groups)

Init ==
    /\ pc = "start"
    /\ \/ cfgFile = "ok" /\ config \in Configs
       \/ cfgFile \in {"missing", "malformed", "empty"} /\ config = NoConfig
    /\ fs = EmptyTree
    /\ pyproject = NoPyproject
    /\ procs = <<>>
    /\ fetched = <<>>
    /\ error_log = <<>>
    /\ reported = <<>>
    /\ failure = NoFailure
    /\ steps = <<>>
    /\ structure = <<>>
    /\ base_path = <<>>
    /\ fs0 = fs
    /\ fs1 = fs
    /\ err1 = NoError
    /\ err2 = NoError
    /\ pyproject0 = NoPyproject

\* lines 209-228: open and parse the file, read the keys
LoadConfig ==
    /\ pc = "start"
    /\ steps' = Append(steps, "load_config")
    /\ LET err == IF cfgFile = "missing" THEN "FileNotFoundError"
                  ELSE IF cfgFile = "malformed" THEN "YAMLError"
                  ELSE IF cfgFile = "empty" THEN "TypeError"
                  ELSE IF ~(RequiredKeys(config) \subseteq DOMAIN config)
                       THEN "KeyError"
                  ELSE NoError
       IN  IF err # NoError
           THEN /\ pc' = "aborted"
                /\ failure' = Failure("load_config", err)
                /\ structure' = structure
           ELSE /\ pc' = "mkdir"
                /\ failure' = failure
                /\ structure' = StructureOf(config)
    /\ UNCHANGED <<config, cfgFile, fs, pyproject, procs, fetched, error_log,
                   reported, base_path, standAlone>>

\* lines 230-232: base_path and its directory
MkBase ==
    /\ pc = "mkdir"
    /\ base_path' = BasePath(ProjectName(config))
    /\ fs' = Mkdir(Ok(fs), base_path').tree
    /\ pc' = "structure"
    /\ UNCHANGED <<config, cfgFile, pyproject, procs, fetched, error_log,
                   reported, failure, steps, structure, standAlone>>

\* line 233
BuildStructure ==
    /\ pc = "structure"
    /\ steps' = Append(steps, "create_project_structure")
    /\ LET r == CreateProjectStructure(Ok(fs), base_path, structure)
       IN  /\ fs' = r.tree
           /\ IF r.err # NoError
              THEN /\ pc' = "aborted"
                   /\ failure' = Failure("create_project_structure", r.err)
              ELSE /\ pc' = "pyenv"
                   /\ failure' = failure
    /\ UNCHANGED <<config, cfgFile, pyproject, procs, fetched, error_log,
                   reported, structure, base_path, standAlone>>

\* line 234, setup_pyenv (lines 17-26): CalledProcessError is logged
SetupPyenv ==
    /\ pc = "pyenv"
    /\ steps' = Append(steps, "setup_pyenv")
    /\ \E ok \in BOOLEAN :
          procs' = Append(procs,
                     Proc(<<"pyenv", "local", PythonVersion(config)>>, ok))
    /\ pc' = "poetry_init"
    /\ UNCHANGED <<config, cfgFile, fs, pyproject, fetched, error_log,
                   reported, failure, structure, base_path, standAlone>>

\* lines 236-240: poetry init with check=True, not in a try
PoetryInit ==
    /\ pc = "poetry_init"
    /\ steps' = Append(steps, "poetry_init")
    /\ \E ok \in BOOLEAN :
          /\ procs' = Append(procs,
                        Proc(<<"poetry", "init", "--no-interaction", "--name",
                               ProjectName(config)>>, ok))
          /\ IF ok
             THEN /\ pyproject' = GeneratedManifest(ProjectName(config))
                  /\ pc' = "poetry_env"
                  /\ failure' = failure
             ELSE /\ pyproject' = pyproject
                  /\ pc' = "aborted"
                  /\ failure' = Failure("poetry_init", "CalledProcessError")
    /\ UNCHANGED <<config, cfgFile, fs, fetched, error_log, reported,
                   structure, base_path, standAlone>>

\* line 242, set_poetry_environment (lines 29-42): CalledProcessError of
\* either command is logged
SetPoetryEnvironment ==
    /\ pc = "poetry_env"
    /\ steps' = Append(steps, "set_poetry_environment")
    /\ \E found \in BOOLEAN, used \in BOOLEAN :
          procs' = procs
                   \o <<Proc(<<"pyenv", "which", "python">>, found)>>
                   \o (IF found
                       THEN <<Proc(<<"poetry", "env", "use", "python-path">>,
                                   used)>>
                       ELSE <<>>)
    /\ pc' = "manifest"
    /\ UNCHANGED <<config, cfgFile, fs, pyproject, fetched, error_log,
                   reported, failure, structure, base_path, standAlone>>

\* line 243
UpdateManifest ==
    /\ pc = "manifest"
    /\ steps' = Append(steps, "update_pyproject")
    /\ \E io \in IoOutcomes :
          LET r == UpdatePyproject(pyproject, config, io)
          IN  /\ pyproject' = r.file
              /\ IF r.err # NoError
                 THEN /\ pc' = "aborted"
                      /\ failure' = Failure("update_pyproject", r.err)
                 ELSE /\ pc' = "deps"
                      /\ failure' = failure
    /\ UNCHANGED <<config, cfgFile, fs, procs, fetched, error_log, reported,
                   structure, base_path, standAlone>>

\* one iteration of the loop of lines 248-277
AddDependency ==
    /\ pc = "deps"
    /\ Len(AddAttempts) < Len(ToInstall)
    /\ LET next == ToInstall[Len(AddAttempts) + 1]
       IN  \E ok \in BOOLEAN :
              /\ procs' = Append(procs,
                            Proc(DepCommand(next.group, next.dep), ok))
              /\ error_log' = IF ok THEN error_log
                              ELSE Append(error_log, ErrorMessage(next.dep))
    /\ steps' = IF AddAttempts = <<>> THEN Append(steps, "dependencies")
                ELSE steps
    /\ UNCHANGED <<pc, config, cfgFile, fs, pyproject, fetched, reported,
                   failure, structure, base_path, standAlone>>

\* line 279, create_dockerfile (lines 143-169), once the loop is over
CreateDockerfile ==
    /\ pc = "deps"
    /\ Len(AddAttempts) = Len(ToInstall)
    /\ steps' = Append(steps, "create_dockerfile")
    /\ LET r == WriteText(Ok(fs), base_path \o <<"Dockerfile">>,
                          DockerfileText(PythonVersion(config)))
       IN  /\ fs' = r.tree
           /\ IF r.err # NoError
              THEN /\ pc' = "aborted"
                   /\ failure' = Failure("create_dockerfile", r.err)
              ELSE /\ pc' = "git"
                   /\ failure' = failure
    /\ UNCHANGED <<config, cfgFile, pyproject, procs, fetched, error_log,
                   reported, structure, base_path, standAlone>>

\* line 281, setup_git (lines 78-93): the next command, with check=True
GitStep ==
    /\ pc = "git"
    /\ Len(GitAttempts) < Len(GitCommands(RemoteUrl(config)))
    /\ steps' = IF GitAttempts = <<>> THEN Append(steps, "setup_git")
                ELSE steps
    /\ \E ok \in BOOLEAN :
          /\ procs' = Append(procs,
                 Proc(GitCommands(RemoteUrl(config))[Len(GitAttempts) + 1], ok))
          /\ IF ok
             THEN /\ pc' = pc
                  /\ failure' = failure
             ELSE /\ pc' = "aborted"
                  /\ failure' = Failure("setup_git", "CalledProcessError")
    /\ UNCHANGED <<config, cfgFile, fs, pyproject, fetched, error_log,
                   reported, structure, base_path, standAlone>>

\* line 283, create_standard_files: .gitignore (lines 108-111), once
\* setup_git has returned
FetchGitignore ==
    /\ pc = "git"
    /\ Len(GitAttempts) = Len(GitCommands(RemoteUrl(config)))
    /\ steps' = Append(steps, "create_standard_files")
    /\ \E content \in FetchResults :
          /\ fetched' = Append(fetched, Fetched(GitignoreUrl(config), content))
          /\ fs' = IF Truthy(content)
                   THEN WriteText(Ok(fs), base_path \o <<".gitignore">>,
                                  FileText(GitignoreUrl(config), content)).tree
                   ELSE fs
    /\ pc' = "precommit"
    /\ UNCHANGED <<config, cfgFile, pyproject, procs, error_log, reported,
                   failure, structure, base_path, standAlone>>

\* .pre-commit-config.yaml and pre-commit install with check=True
\* (lines 113-119)
FetchPreCommit ==
    /\ pc = "precommit"
    /\ \E content \in FetchResults, ok \in BOOLEAN :
          /\ fetched' = Append(fetched,
                               Fetched(PreCommitConfigUrl(config), content))
          /\ fs' = IF Truthy(content)
                   THEN WriteText(Ok(fs),
                            base_path \o <<".pre-commit-config.yaml">>,
                            FileText(PreCommitConfigUrl(config), content)).tree
                   ELSE fs
          /\ IF InstallsHooks(content)
             THEN /\ procs' = Append(procs, Proc(PreCommitInstallCmd, ok))
                  /\ IF ok
                     THEN pc' = "license" /\ failure' = failure
                     ELSE /\ pc' = "aborted"
                          /\ failure' = Failure("create_standard_files",
                                                "CalledProcessError")
             ELSE /\ procs' = procs
                  /\ pc' = "license"
                  /\ failure' = failure
    /\ UNCHANGED <<config, cfgFile, pyproject, error_log, reported, steps,
                   structure, base_path, standAlone>>

\* LICENSE and README.md (lines 121-127)
FetchLicenseWriteReadme ==
    /\ pc = "license"
    /\ \E content \in FetchResults :
          /\ fetched' = Append(fetched, Fetched(LicenseUrl(config), content))
          /\ LET licensed == IF Truthy(content)
                             THEN WriteText(Ok(fs), base_path \o <<"LICENSE">>,
                                      FileText(LicenseUrl(config), content))
                             ELSE Ok(fs)
             IN  fs' = WriteText(licensed, base_path \o <<"README.md">>,
                                 ReadmeText(base_path)).tree
    /\ pc' = "ci"
    /\ UNCHANGED <<config, cfgFile, pyproject, procs, error_log, reported,
                   failure, steps, structure, base_path, standAlone>>

\* line 284, setup_testing_and_ci_cd (lines 172-205)
SetupTestingAndCiCd ==
    /\ pc = "ci"
    /\ steps' = Append(steps, "setup_testing_and_ci_cd")
    /\ LET dir == base_path \o <<".github", "workflows", "python-app.yml">>
           r == WriteText(Mkdir(Ok(fs), dir), dir \o <<"ci-cd.yaml">>, CiText)
       IN  /\ fs' = r.tree
           /\ IF r.err # NoError
              THEN /\ pc' = "aborted"
                   /\ failure' = Failure("setup_testing_and_ci_cd", r.err)
              ELSE /\ pc' = "report"
                   /\ failure' = failure
    /\ UNCHANGED <<config, cfgFile, pyproject, procs, fetched, error_log,
                   reported, structure, base_path, standAlone>>

\* lines 286-291: the summary of the installation errors
Report ==
    /\ pc = "report"
    /\ reported' = error_log
    /\ pc' = "done"
    /\ UNCHANGED <<config, cfgFile, fs, pyproject, procs, fetched, error_log,
                   failure, steps, structure, base_path, standAlone>>

Next ==
    \/ LoadConfig
    \/ MkBase
    \/ BuildStructure
    \/ SetupPyenv
    \/ PoetryInit
    \/ SetPoetryEnvironment
    \/ UpdateManifest
    \/ AddDependency
    \/ CreateDockerfile
    \/ GitStep
    \/ FetchGitignore
    \/ FetchPreCommit
    \/ FetchLicenseWriteReadme
    \/ SetupTestingAndCiCd
    \/ Report

Spec == Init /\ [][Next]_vars

---------------------------------------------------------------------------
(* Properties of main. *)

Loaded == cfgFile = "ok" /\ RequiredKeys(config) \subseteq DOMAIN config

Range(seq) == {seq[i] : i \in 1..Len(seq)}

InProject(name) == IsFile(fs, base_path \o <<name>>)

HasDevFlag(cmd) == \E i \in 1..Len(cmd) : cmd[i] = "-D"

\* the run has left the dependency loop
PastDependencies ==
    \/ pc \in {"git", "precommit", "license", "ci", "report", "done"}
    \/ /\ pc = "aborted"
       /\ failure.step \in {"create_dockerfile", "setup_git",
                            "create_standard_files", "setup_testing_and_ci_cd"}

RECURSIVE ListedBefore(_, _)

\* how many dependencies the mapping lists before its group number gi
ListedBefore(groups, gi) ==
    IF gi <= 1 THEN 0
    ELSE ListedBefore(groups, gi - 1) + Len(groups[gi - 1].deps)

(* C1: the add attempts are made in listing order, one per listed          *)
(* dependency: the attempt for the di-th name of the gi-th group is the    *)
(* attempt number (names listed in earlier groups) + di, it names that     *)
(* dependency and it carries -D exactly when the group is not "main"; and  *)
(* once the run is past the loop every listed dependency has had its       *)
(* attempt, whichever attempts failed.                                     *)
C1_OneAttemptPerDependency ==
    (Loaded /\ ~Dependencies(config).isNone)
    => LET groups == Dependencies(config).groups
           total == ListedBefore(groups, Len(groups) + 1)
           made == AddAttempts
       IN  /\ Len(made) <= total
           /\ PastDependencies => Len(made) = total
           /\ \A gi \in 1..Len(groups) : \A di \in 1..Len(groups[gi].deps) :
                 LET pos == ListedBefore(groups, gi) + di
                 IN  pos <= Len(made)
                     => /\ made[pos].cmd[Len(made[pos].cmd)]
                             = groups[gi].deps[di]
                        /\ HasDevFlag(made[pos].cmd)
                             <=> (groups[gi].group # "main")

\* a run that finished after the first of two attempts failed, the second
\* one being development-only
C1_Witness ==
    /\ pc = "done"
    /\ Len(AddAttempts) = 2
    /\ ~AddAttempts[1].ok
    /\ ~HasDevFlag(AddAttempts[1].cmd)
    /\ HasDevFlag(AddAttempts[2].cmd)
    /\ Len(reported) = 1

(* C2: a run whose configuration file parses but has no project_name ends  *)
(* with KeyError in the configuration step, and at no point has it created *)
(* a directory or a file, started a command or fetched a URL.              *)
C2_MissingNameFailsFirst ==
    (cfgFile = "ok" /\ "project_name" \notin DOMAIN config /\ pc # "start")
    => /\ pc = "aborted"
       /\ failure = Failure("load_config", "KeyError")
       /\ fs = EmptyTree
       /\ ~pyproject.exists
       /\ procs = <<>>
       /\ fetched = <<>>

\* such a run, with every other key present, has ended
C2_Witness ==
    /\ cfgFile = "ok"
    /\ DOMAIN config = {"dependencies", "structure", "python_version"}
    /\ pc = "aborted"

GitignoreFailed == fetched # <<>> /\ fetched[1].result = None

HooksInstallAttempts == Select(procs, PreCommitInstallCmd)

StepRank(step) ==
    CASE step = "load_config" -> 1
      [] step = "create_project_structure" -> 2
      [] step \in {"setup_pyenv", "poetry_init", "set_poetry_environment"} -> 3
      [] step = "update_pyproject" -> 4
      [] step = "dependencies" -> 5
      [] step \in {"create_dockerfile", "create_standard_files",
                   "setup_testing_and_ci_cd"} -> 6
      [] step = "setup_git" -> 7

(* C7: main's calls are made in the order of the pipeline (configuration,  *)
(* structure, toolchain, manifest, dependencies, scaffold files, version   *)
(* control), and no version-control command is started before the readme   *)
(* and the CI workflow file are written.                                   *)
C7_ScaffoldBeforeVcs ==
    /\ \A i \in 1..Len(steps) : \A j \in i..Len(steps) :
          StepRank(steps[i]) <= StepRank(steps[j])
    /\ GitAttempts # <<>>
       => /\ InProject("README.md")
          /\ IsFile(fs, base_path \o <<".github", "workflows",
                                       "python-app.yml", "ci-cd.yaml">>)

(* C8: a run whose configuration has project_name and no python_version is *)
(* not ended by the omission (no TypeError), pins 3.8 with pyenv, writes   *)
(* ^3.8 into the manifest and python:3.8 into the Dockerfile.              *)
C8_OmittedVersionIsDefault ==
    (Loaded /\ "python_version" \notin DOMAIN config)
    => /\ ~(pc = "aborted" /\ failure.error = "TypeError")
       /\ \A p \in Range(Select(procs, <<"pyenv", "local">>)) :
             p.cmd = <<"pyenv", "local", "3.8">>
       /\ PastDependencies => pyproject.kv[PoetryDeps \o <<"python">>] = "^3.8"
       /\ InProject("Dockerfile")
          => fs.files[base_path \o <<"Dockerfile">>] = DockerfileText("3.8")

\* the failures the run is to end on: the configuration (missing, malformed,
\* a required key missing), reading or writing the manifest, a git command
FatalClassFailure ==
    \/ failure.step = "load_config"
    \/ /\ failure.step = "update_pyproject"
       /\ failure.error \in {"FileNotFoundError", "OSError", "KeyError"}
    \/ failure.step = "setup_git"

(* C9: the run is aborted only by a failure of the fatal class; a run that *)
(* completes has made every call of main and reported exactly the failed   *)
(* dependency installations.                                               *)
C9_AbortOnlyOnFatalClass ==
    /\ pc = "aborted" => FatalClassFailure
    /\ pc = "done"
       => /\ reported = error_log
          /\ Len(reported)
               = Cardinality({i \in 1..Len(AddAttempts) : ~AddAttempts[i].ok})
          /\ {"load_config", "create_project_structure", "setup_pyenv",
              "poetry_init", "set_poetry_environment", "update_pyproject",
              "create_dockerfile", "setup_git", "create_standard_files",
              "setup_testing_and_ci_cd"} \subseteq Range(steps)

\* the version-control commands in the order the claim gives
ClaimedGitOrder(url) ==
    << <<"git", "init">>,
       <<"git", "remote", "add", "origin", url>>,
       <<"git", "add", ".">>,
       <<"git", "commit", "-m", "Initial commit">>,
       <<"git", "push", "-u", "origin", "master">> >>

RemoteConfigured ==
    "remote_url" \in DOMAIN config /\ config["remote_url"] \notin {"", None}

\* the run has left setup_git
PastGit ==
    \/ pc \in {"precommit", "license", "ci", "report", "done"}
    \/ pc = "aborted" /\ failure.step \in {"create_standard_files",
                                           "setup_testing_and_ci_cd"}

(* C10: the git commands started are an initial part of init, remote add   *)
(* origin, add, commit, push when a remote URL is configured and of init   *)
(* alone when none is; each but the last started has succeeded; a failed   *)
(* one ends the run in setup_git; and a run that has left setup_git has    *)
(* run them all, init included, with success.                              *)
C10_GitCommandOrder ==
    Loaded
    => LET expected == IF RemoteConfigured
                       THEN ClaimedGitOrder(config["remote_url"])
                       ELSE <<GitInitCmd>>
           g == GitAttempts
       IN  /\ Len(g) <= Len(expected)
           /\ \A i \in 1..Len(g) :
                 /\ g[i].cmd = expected[i]
                 /\ i < Len(g) => g[i].ok
           /\ (g # <<>> /\ ~g[Len(g)].ok)
              => pc = "aborted" /\ failure.step = "setup_git"
           /\ PastGit => (Len(g) = Len(expected) /\ \A i \in 1..Len(g) : g[i].ok)

\* a run with a remote that pushed and went on to the end
C10_Witness ==
    /\ RemoteConfigured
    /\ Len(GitAttempts) = 5
    /\ GitAttempts[5].ok
    /\ pc = "done"

=============================================================================
